---- MODULE Spec2Model ----
(***************************************************************************)
(* A model of pycoolmaster (src/pycoolmaster/__init__.py): the CoolMaster  *)
(* bridge object with its per-request serial exchange (_make_request) and  *)
(* the CoolMasterDevice objects with their one-second status cache.        *)
(*                                                                         *)
(* Text is modelled as sequences of characters, a character being a        *)
(* one-letter string; CR and LF stand for "\r" and "\n".  The serial port  *)
(* (pyserial) and the bridge at its other end are the environment: every   *)
(* handler is one action whose inputs, the bytes the bridge sends back and *)
(* the I/O faults of the port, are drawn from small sets.                  *)
(***************************************************************************)
EXTENDS Integers, Sequences, FiniteSets, TLC

VARIABLES
    ser,        \* CoolMaster._ser: "None", or a Serial object "closed" / "open"
    bridgeAuto, \* CoolMaster._auto_update
    now,        \* time.time(), in ticks
    dev,        \* the CoolMasterDevice objects the caller holds, a sequence
    last,       \* what the most recent call did and gave back to its caller
    refreshedAt, \* history: per object, when its last successful refresh ended
    xch,        \* the bytes of the most recent exchange (SpecBridge)
    pc,         \* per thread in _make_request: its position and its locals
    inbuf,      \* the bytes received on the port and not read yet
    mutex       \* the lock the callers put around _make_request, if any

vars == <<ser, bridgeAuto, now, dev, last, refreshedAt, xch, pc, inbuf, mutex>>

\* The variables of the threads, which the other specifications leave alone
threadVars == <<pc, inbuf, mutex>>

\* The clock, in the time units of line 130, runs from FirstTime to MaxTime.
\* A call takes no time on this clock; time passes between calls.
FirstTime == 1
MaxTime == 2

\* The objects the caller holds
DevIds == DOMAIN dev

-----------------------------------------------------------------------------
(* Characters and text *)

CR == "CR"
LF == "LF"
TAB == "TAB"
SP == " "

CRLF == <<CR, LF>>

Whitespace == {SP, CR, LF, TAB}

\* b"\r\n>" (lines 78, 86, 89)
PROMPT == <<CR, LF, ">">>

\* b">" (line 78)
GT == <<">">>

\* "OK\r\n" (line 92)
OKLINE == <<"O", "K", CR, LF>>

Digits == <<"0", "1", "2", "3", "4", "5", "6", "7", "8", "9">>

UpperCase == <<"A", "B", "C", "D", "E", "F", "G", "H", "I", "J", "K", "L", "M",
               "N", "O", "P", "Q", "R", "S", "T", "U", "V", "W", "X", "Y", "Z">>

LowerCase == <<"a", "b", "c", "d", "e", "f", "g", "h", "i", "j", "k", "l", "m",
               "n", "o", "p", "q", "r", "s", "t", "u", "v", "w", "x", "y", "z">>

IndexIn(c, table) ==
    IF \E i \in 1..Len(table) : table[i] = c
    THEN CHOOSE i \in 1..Len(table) : table[i] = c
    ELSE 0

\* str.lower(), character by character
LowerChar(c) ==
    IF IndexIn(c, UpperCase) > 0 THEN LowerCase[IndexIn(c, UpperCase)] ELSE c

Lower(s) == [i \in 1..Len(s) |-> LowerChar(s[i])]

\* s.startswith(p) at offset i (1-based): s[i .. i+len(p)-1] = p
MatchAt(s, p, i) ==
    /\ i >= 1
    /\ i + Len(p) - 1 <= Len(s)
    /\ SubSeq(s, i, i + Len(p) - 1) = p

\* str.endswith
EndsWith(s, p) == Len(p) <= Len(s) /\ MatchAt(s, p, Len(s) - Len(p) + 1)

\* s[:-n]
DropLast(s, n) == SubSeq(s, 1, Len(s) - n)

\* str.find: the least 1-based offset of p in s, 0 when there is none
RECURSIVE FindFrom(_, _, _)
FindFrom(s, p, i) ==
    IF i + Len(p) - 1 > Len(s) THEN 0
    ELSE IF MatchAt(s, p, i) THEN i
    ELSE FindFrom(s, p, i + 1)

Find(s, p) == FindFrom(s, p, 1)

\* str.strip(): leading and trailing whitespace removed
RECURSIVE LStrip(_)
LStrip(s) ==
    IF s # <<>> /\ Head(s) \in Whitespace THEN LStrip(Tail(s)) ELSE s

RECURSIVE RStrip(_)
RStrip(s) ==
    IF s # <<>> /\ s[Len(s)] \in Whitespace THEN RStrip(DropLast(s, 1)) ELSE s

Strip(s) == RStrip(LStrip(s))

\* str.replace(old, new) for a non-empty old: left to right, non-overlapping
RECURSIVE Replace(_, _, _)
Replace(s, old, new) ==
    LET at == Find(s, old)
    IN  IF at = 0 THEN s
        ELSE SubSeq(s, 1, at - 1) \o new
             \o Replace(SubSeq(s, at + Len(old), Len(s)), old, new)

\* str.split(sep) for a non-empty sep: a sequence of texts
RECURSIVE Split(_, _)
Split(s, sep) ==
    LET at == Find(s, sep)
    IN  IF at = 0 THEN <<s>>
        ELSE <<SubSeq(s, 1, at - 1)>>
             \o Split(SubSeq(s, at + Len(sep), Len(s)), sep)

\* re.split(r"\s+", s): s cut at every maximal run of whitespace
RECURSIVE SplitWs(_, _)
SplitWs(s, cur) ==
    IF s = <<>> THEN <<cur>>
    ELSE IF Head(s) \in Whitespace
         THEN <<cur>> \o SplitWs(LStrip(s), <<>>)
         ELSE SplitWs(Tail(s), Append(cur, Head(s)))

ReSplitWs(s) == SplitWs(s, <<>>)

-----------------------------------------------------------------------------
(* The serial port and one exchange: CoolMaster._open, _make_request *)

\* Outcome of a call that returned normally
NoExc == "none"

\* An exchange's environment: whether opening / closing the port fails, the
\* read or write that fails with an I/O error (io: "none", "write_sync",
\* "read_sync", "write_cmd", "read_echo" or "read_resp"), the bytes the bridge
\* sends after the synchronising empty line and after the command line.

\* serial.Serial.read_until(expected): the bytes up to and including the
\* first occurrence of expected; when the read timeout elapses first, all the
\* bytes received so far (no error is raised).  data is what is returned,
\* rest what stays in the input buffer.
ReadUntil(rx, expected) ==
    LET at == Find(rx, expected)
    IN  IF at > 0
        THEN [data |-> SubSeq(rx, 1, at + Len(expected) - 1),
              rest |-> SubSeq(rx, at + Len(expected), Len(rx)),
              timeout |-> FALSE]
        ELSE [data |-> rx, rest |-> <<>>, timeout |-> TRUE]

\* _open (lines 62-70).  Serial(port, ...) opens the port as it is
\* constructed and its failure is not caught; open() on the object fails when
\* the port is open already or cannot be opened, and that is swallowed.
Open(s, env) ==
    IF s = "None"
    THEN IF env.openFails
         THEN [ser |-> "None", exc |-> "SerialException:open"]
         ELSE [ser |-> "open", exc |-> NoExc]
    ELSE IF s = "closed" /\ ~env.openFails
         THEN [ser |-> "open", exc |-> NoExc]
         ELSE [ser |-> s, exc |-> NoExc]

\* lines 89-93: the trailing ">" of "\r\n>" cut, then a trailing "OK\r\n"
StripResponse(response) ==
    LET r1 == IF EndsWith(response, PROMPT) THEN DropLast(response, 1) ELSE response
    IN  IF EndsWith(r1, OKLINE) THEN DropLast(r1, 4) ELSE r1

Raised(e, w) == [exc |-> e, body |-> <<>>, wire |-> w, timeout |-> FALSE]

\* lines 81-95, the exchange after the prompt was found: rx0 is what the
\* synchronising read left in the input buffer.
CommandExchange(request, env, rx0) ==
    LET line == request \o CRLF
        w    == <<CRLF, line>>
        echo == ReadUntil(rx0 \o env.reply, line)
        resp == ReadUntil(echo.rest, PROMPT)
    IN  IF env.io = "write_cmd" THEN Raised("SerialException:write", <<CRLF>>)
        ELSE IF env.io = "read_echo" THEN Raised("SerialException:read", w)
        ELSE IF env.io = "read_resp" THEN Raised("SerialException:read", w)
        ELSE [exc |-> NoExc, body |-> StripResponse(resp.data), wire |-> w,
              timeout |-> resp.timeout]

\* Exchange without the test of line 78: the command is written whatever
\* came back for the empty line
Exchange_NoPromptTest(s, request, env) ==
    IF s # "open" THEN Raised("SerialException:port not open", <<>>)
    ELSE IF env.io = "write_sync" THEN Raised("SerialException:write", <<>>)
    ELSE IF env.io = "read_sync" THEN Raised("SerialException:read", <<CRLF>>)
    ELSE CommandExchange(request, env, ReadUntil(env.sync, GT).rest)

PromptNotFound == "Exception:CoolMaster prompt not found"

\* lines 77-95, the body of the try block, s being the port after _open
Exchange(s, request, env) ==
    LET sync == ReadUntil(env.sync, GT)
    IN  IF s # "open" THEN Raised("SerialException:port not open", <<>>)
        ELSE IF env.io = "write_sync" THEN Raised("SerialException:write", <<>>)
        ELSE IF env.io = "read_sync" THEN Raised("SerialException:read", <<CRLF>>)
        ELSE IF sync.data # PROMPT
             THEN Raised("Exception:CoolMaster prompt not found", <<CRLF>>)
        ELSE CommandExchange(request, env, sync.rest)

\* Finally as an except-less close at the end of the try block: the port is
\* closed only when the block raised nothing
Finally_OnSuccessOnly(x, env) ==
    [ser |-> IF x.exc = NoExc THEN "closed" ELSE "open",
     exc |-> x.exc, body |-> x.body, wire |-> x.wire, timeout |-> x.timeout,
     closed |-> x.exc = NoExc, tryExc |-> x.exc]

\* Serial.close() in the finally block (lines 96-97).  The port is closed
\* after the call whether or not it reports an error (the descriptor is
\* released either way); an error it raises is not caught there, and so
\* replaces the result or the exception of the try block.
Finally(x, env) ==
    IF env.closeFails
    THEN [ser |-> "closed", exc |-> "SerialException:close", body |-> <<>>,
          wire |-> x.wire, timeout |-> x.timeout, closed |-> TRUE, tryExc |-> x.exc]
    ELSE [ser |-> "closed", exc |-> x.exc, body |-> x.body,
          wire |-> x.wire, timeout |-> x.timeout, closed |-> TRUE, tryExc |-> x.exc]

\* _make_request (lines 72-97)
MakeRequest(s, request, env) ==
    LET o == Open(s, env)
    IN  IF o.exc # NoExc
        THEN [ser |-> o.ser, exc |-> o.exc, body |-> <<>>, wire |-> <<>>,
              timeout |-> FALSE, closed |-> FALSE, tryExc |-> o.exc]
        ELSE Finally(Exchange(o.ser, request, env), env)

-----------------------------------------------------------------------------
(* Module-level tables (lines 11-32) *)

\* Python's None, which is no text
PyNone == <<"None">>

T_auto == <<"a", "u", "t", "o">>
T_horizontal == <<"h", "o", "r", "i", "z", "o", "n", "t", "a", "l">>
T_30 == <<"3", "0">>
T_45 == <<"4", "5">>
T_60 == <<"6", "0">>
T_vertical == <<"v", "e", "r", "t", "i", "c", "a", "l">>
T_cool == <<"c", "o", "o", "l">>
T_dry == <<"d", "r", "y">>
T_fan == <<"f", "a", "n">>
T_heat == <<"h", "e", "a", "t">>
T_low == <<"l", "o", "w">>

\* SWING_CHAR_TO_NAME with the names of "3" and "4" exchanged
SWING_CHAR_TO_NAME_Exchanged ==
    (<<"-">> :> PyNone) @@ (<<"0">> :> PyNone) @@ (<<"a">> :> T_auto)
    @@ (<<"h">> :> T_horizontal) @@ (<<"3">> :> T_45) @@ (<<"4">> :> T_30)
    @@ (<<"6">> :> T_60) @@ (<<"v">> :> T_vertical)

\* _SWING_CHAR_TO_NAME (lines 11-20)
SWING_CHAR_TO_NAME ==
    (<<"-">> :> PyNone) @@ (<<"0">> :> PyNone) @@ (<<"a">> :> T_auto)
    @@ (<<"h">> :> T_horizontal) @@ (<<"3">> :> T_30) @@ (<<"4">> :> T_45)
    @@ (<<"6">> :> T_60) @@ (<<"v">> :> T_vertical)

\* _SWING_NAME_TO_CHAR (lines 22-29)
SWING_NAME_TO_CHAR ==
    (T_auto :> <<"a">>) @@ (T_horizontal :> <<"h">>) @@ (T_30 :> <<"3">>)
    @@ (T_45 :> <<"4">>) @@ (T_60 :> <<"6">>) @@ (T_vertical :> <<"v">>)

\* _MODES (line 32)
MODES == <<T_auto, T_cool, T_dry, T_fan, T_heat>>


-----------------------------------------------------------------------------
(* float() *)

AllDigits(s) == \A i \in 1..Len(s) : IndexIn(s[i], Digits) > 0

RECURSIVE DigitsValue(_)
DigitsValue(s) ==
    IF s = <<>> THEN 0
    ELSE 10 * DigitsValue(DropLast(s, 1)) + (IndexIn(s[Len(s)], Digits) - 1)

RECURSIVE Pow10(_)
Pow10(n) == IF n = 0 THEN 1 ELSE 10 * Pow10(n - 1)

RECURSIVE DropTrailingZeros(_)
DropTrailingZeros(s) ==
    IF s # <<>> /\ s[Len(s)] = "0" THEN DropTrailingZeros(DropLast(s, 1)) ELSE s

\* float(s) for the plain decimal texts the bridge sends: digits with at most
\* one ".", at least one digit.  The value is the fraction num/den, den the
\* least power of ten (4.930 and 4.93 are one value); any other text is a
\* ValueError (exponents, signs, "inf" and "nan" are not among the inputs).
ParseFloat(s) ==
    LET dot  == Find(s, <<".">>)
        ip   == IF dot = 0 THEN s ELSE SubSeq(s, 1, dot - 1)
        fp   == IF dot = 0 THEN <<>> ELSE SubSeq(s, dot + 1, Len(s))
        frac == DropTrailingZeros(fp)
    IN  IF AllDigits(ip) /\ AllDigits(fp) /\ Len(ip) + Len(fp) > 0
        THEN [ok |-> TRUE, num |-> DigitsValue(ip \o frac), den |-> Pow10(Len(frac))]
        ELSE [ok |-> FALSE, num |-> 0, den |-> 1]

FloatOf(s) == [num |-> ParseFloat(s).num, den |-> ParseFloat(s).den]

-----------------------------------------------------------------------------
(* CoolMasterDevice (lines 114-254) *)

\* An attribute an object does not have yet is <<>>, one set to v is <<v>>;
\* reading the former is Python's AttributeError.
Unset == <<>>

Attrs == {"is_on", "unit", "thermostat", "temperature", "fan_speed", "mode",
          "swing_mode"}

\* __init__ (lines 121-126): none of the status attributes is set
NewDevice(uid, auto) ==
    [uid |-> uid, auto_update |-> auto, last_refresh_time |-> 0,
     is_on |-> Unset, unit |-> Unset, thermostat |-> Unset, temperature |-> Unset,
     fan_speed |-> Unset, mode |-> Unset, swing_mode |-> Unset]

\* The cached status of a Device
Snapshot(d) == [a \in Attrs |-> d[a]]

T_stat2 == <<"s", "t", "a", "t", "2">>
T_query == <<"q", "u", "e", "r", "y">>
T_UID == <<"U", "I", "D">>

\* "stat2 " + self._uid (line 135)
StatRequest(uid) == T_stat2 \o <<SP>> \o uid

\* "query {} s".format(self._uid) (line 150)
SwingRequest(uid) == T_query \o <<SP>> \o uid \o <<SP, "s">>

\* What a handler of a Device gives back: the object after it, the port,
\* the exception raised (NoExc: none), the requests it passed to
\* _make_request, whether a read for an answer's terminator ran into the
\* read timeout, and the value returned (<<v>>; <<>> for None or a raise).
Outcome(d, s, e, reqs, to) ==
    [dev |-> d, ser |-> s, exc |-> e, reqs |-> reqs, timeout |-> to, ret |-> <<>>]

\* DecodeStatus without the lower() of lines 147-148
DecodeStatus_NoLower(d, fields) ==
    LET d1 == [d EXCEPT !.is_on = <<fields[2] = <<"O", "N">> >>,
                        !.unit = <<IF fields[3][Len(fields[3])] = "F"
                                   THEN "imperial" ELSE "celsius">>]
        th == DropLast(fields[3], 1)
        d2 == [d1 EXCEPT !.thermostat = <<FloatOf(th)>>]
        te == Replace(DropLast(fields[4], 1), <<",">>, <<".">>)
        d3 == [d2 EXCEPT !.temperature = <<FloatOf(te)>>,
                         !.fan_speed = <<fields[5]>>,
                         !.mode = <<fields[6]>>]
    IN  IF ~ParseFloat(th).ok THEN [dev |-> d1, exc |-> "ValueError:float"]
        ELSE IF ~ParseFloat(te).ok THEN [dev |-> d2, exc |-> "ValueError:float"]
        ELSE [dev |-> d3, exc |-> NoExc]

\* lines 143-148: the attributes are assigned one by one, so a float() that
\* fails leaves the assignments before it in place
DecodeStatus(d, fields) ==
    LET d1 == [d EXCEPT !.is_on = <<fields[2] = <<"O", "N">> >>,
                        !.unit = <<IF fields[3][Len(fields[3])] = "F"
                                   THEN "imperial" ELSE "celsius">>]
        th == DropLast(fields[3], 1)
        d2 == [d1 EXCEPT !.thermostat = <<FloatOf(th)>>]
        te == Replace(DropLast(fields[4], 1), <<",">>, <<".">>)
        d3 == [d2 EXCEPT !.temperature = <<FloatOf(te)>>,
                         !.fan_speed = <<Lower(fields[5])>>,
                         !.mode = <<Lower(fields[6])>>]
    IN  IF ~ParseFloat(th).ok THEN [dev |-> d1, exc |-> "ValueError:float"]
        ELSE IF ~ParseFloat(te).ok THEN [dev |-> d2, exc |-> "ValueError:float"]
        ELSE [dev |-> d3, exc |-> NoExc]

\* DecodeSwing with the timestamp of line 155 taken before the lookup of
\* line 153
DecodeSwing_StampFirst(d, r2, t) ==
    LET d1  == [d EXCEPT !.swing_mode = <<PyNone>>, !.last_refresh_time = t]
        key == Strip(r2.body)
    IN  IF r2.exc # NoExc THEN [dev |-> d, exc |-> r2.exc]
        ELSE IF r2.body = <<>> THEN [dev |-> d1, exc |-> NoExc]
        ELSE IF key \notin DOMAIN SWING_CHAR_TO_NAME
             THEN [dev |-> d1, exc |-> "KeyError"]
        ELSE [dev |-> [d1 EXCEPT !.swing_mode = <<SWING_CHAR_TO_NAME[key]>>],
              exc |-> NoExc]

\* lines 150-155, after the status attributes were assigned: r2 is the result
\* of the swing request, t the time at line 155
DecodeSwing(d, r2, t) ==
    LET d1  == [d EXCEPT !.swing_mode = <<PyNone>>]
        key == Strip(r2.body)
    IN  IF r2.exc # NoExc THEN [dev |-> d, exc |-> r2.exc]
        ELSE IF r2.body = <<>>
             THEN [dev |-> [d1 EXCEPT !.last_refresh_time = t], exc |-> NoExc]
        ELSE IF key \notin DOMAIN SWING_CHAR_TO_NAME
             THEN [dev |-> d1, exc |-> "KeyError"]
        ELSE [dev |-> [d1 EXCEPT !.swing_mode = <<SWING_CHAR_TO_NAME[key]>>,
                                 !.last_refresh_time = t],
              exc |-> NoExc]

\* StatusPhase with "fewer than 8" for the "not 8" of line 140
StatusPhase_AtLeast8(d, s, e1) ==
    LET r1     == MakeRequest(s, StatRequest(d.uid), e1)
        fields == ReSplitWs(Strip(r1.body))
        dec    == DecodeStatus(d, fields)
        reqs   == <<StatRequest(d.uid)>>
    IN  IF r1.exc # NoExc THEN Outcome(d, r1.ser, r1.exc, reqs, r1.timeout)
        ELSE IF Len(fields) < 8
             THEN Outcome(d, r1.ser, "Exception:Unexpected status line format",
                          reqs, r1.timeout)
        ELSE Outcome(dec.dev, r1.ser, dec.exc, reqs, r1.timeout)

\* lines 135-148: the status request and the decoding of its line
StatusPhase(d, s, e1) ==
    LET r1     == MakeRequest(s, StatRequest(d.uid), e1)
        fields == ReSplitWs(Strip(r1.body))
        dec    == DecodeStatus(d, fields)
        reqs   == <<StatRequest(d.uid)>>
    IN  IF r1.exc # NoExc THEN Outcome(d, r1.ser, r1.exc, reqs, r1.timeout)
        ELSE IF Len(fields) # 8
             THEN Outcome(d, r1.ser, "Exception:Unexpected status line format",
                          reqs, r1.timeout)
        ELSE Outcome(dec.dev, r1.ser, dec.exc, reqs, r1.timeout)

\* lines 150-155: the swing request, its decoding and the new timestamp;
\* p is the outcome of the status phase, which raised nothing
SwingPhase(p, e2, t) ==
    LET r2  == MakeRequest(p.ser, SwingRequest(p.dev.uid), e2)
        dec == DecodeSwing(p.dev, r2, t)
    IN  Outcome(dec.dev, r2.ser, dec.exc, Append(p.reqs, SwingRequest(p.dev.uid)),
                p.timeout \/ r2.timeout)

\* _clear_status (lines 157-160)
ClearStatus(d) == [d EXCEPT !.last_refresh_time = 0]

\* Command with the _clear_status in a finally block
Command_ClearAlways(d, s, format_str, env) ==
    LET req == Replace(format_str, T_UID, d.uid)
        r   == MakeRequest(s, req, env)
    IN  Outcome(ClearStatus(d), r.ser, r.exc, <<req>>, r.timeout)

\* Command without the _clear_status that follows the request
Command_NoClear(d, s, format_str, env) ==
    LET req == Replace(format_str, T_UID, d.uid)
        r   == MakeRequest(s, req, env)
    IN  Outcome(d, r.ser, r.exc, <<req>>, r.timeout)

\* CoolMasterDevice._make_request (lines 162-165) followed by _clear_status,
\* the body of turn_on, turn_off, set_fan_speed and set_thermostat
Command(d, s, format_str, env) ==
    LET req == Replace(format_str, T_UID, d.uid)
        r   == MakeRequest(s, req, env)
    IN  IF r.exc # NoExc THEN Outcome(d, r.ser, r.exc, <<req>>, r.timeout)
        ELSE Outcome(ClearStatus(d), r.ser, NoExc, <<req>>, r.timeout)

\* the test of _update_if_needed (line 130) at time t
StaleAfter == 1

\* NeedsUpdate with > for >=
NeedsUpdate_Strict(d, t) == d.auto_update /\ t - d.last_refresh_time > StaleAfter

NeedsUpdate(d, t) == d.auto_update /\ t - d.last_refresh_time >= StaleAfter

\* The status-derived properties (lines 211-254) that the model's callers
\* read: the first attribute a refresh assigns, the last one, and all of them
AccessorsRead == {"is_on", "swing", "status"}

AttrOf(a) == IF a = "swing" THEN "swing_mode" ELSE a

\* The value the wrapped function returns, or AttributeError when an
\* attribute it reads was never assigned
ReadAccessor(d, a) ==
    IF a = "status"
    THEN IF \E x \in Attrs : d[x] = Unset
         THEN [exc |-> "AttributeError", ret |-> <<>>]
         ELSE [exc |-> NoExc,
               ret |-> << [fan_speed |-> d.fan_speed[1], is_on |-> d.is_on[1],
                           mode |-> d.mode[1], swing |-> d.swing_mode[1],
                           temperature |-> d.temperature[1],
                           thermostat |-> d.thermostat[1], uid |-> d.uid,
                           unit |-> d.unit[1]] >>]
    ELSE IF d[AttrOf(a)] = Unset
         THEN [exc |-> "AttributeError", ret |-> <<>>]
         ELSE [exc |-> NoExc, ret |-> d[AttrOf(a)]]

\* set_mode (lines 171-178): the request text, or the ValueError
ModeFormat(value) == value \o <<SP>> \o T_UID

\* set_swing (lines 184-193)
SwingFormat(value) == <<"s", "w", "i", "n", "g", SP>> \o T_UID \o <<SP>>
                      \o SWING_NAME_TO_CHAR[value]

ValidMode(value) == \E k \in 1..Len(MODES) : MODES[k] = value

ValidSwing(value) == value \in DOMAIN SWING_NAME_TO_CHAR

\* "fspeed UID {}".format(value) (line 168)
FanFormat(value) == <<"f", "s", "p", "e", "e", "d", SP>> \o T_UID \o <<SP>> \o value

\* "temp UID {}".format(value) (line 181)
TempFormat(value) == <<"t", "e", "m", "p", SP>> \o T_UID \o <<SP>> \o value

\* "on UID", "off UID" (lines 197, 202)
OnFormat == <<"o", "n", SP>> \o T_UID

OffFormat == <<"o", "f", "f", SP>> \o T_UID

\* devices (lines 99-106): the uids of the Device objects of the list it
\* returns, one per line of the stripped response
DeviceUids(body) ==
    LET lines == Split(Strip(body), CRLF)
    IN  [i \in 1..Len(lines) |->
            SubSeq(lines[i], 1, IF 3 < Len(lines[i]) THEN 3 ELSE Len(lines[i]))]

-----------------------------------------------------------------------------
(* The inputs: what callers pass and what the bridge sends *)

\* unit identifiers
U101 ==
    <<"1", "0", "1">>

\* a value neither a mode nor a swing mode
T_bogus ==
    <<"b", "o", "g", "u", "s">>

\* the status line of the comment at line 138
LineOff ==
    <<"1", "0", "1", SP, "O", "F", "F", SP, "3", "2", "C", SP, "0", "4", ",",
    "9", "3", "C", SP, "L", "o", "w", SP, SP, "D", "r", "y", SP, SP, "O", "K",
    SP, "1", CR, LF>>

\* a unit that is on, in Fahrenheit
LineOn ==
    <<"1", "0", "1", SP, "O", "N", SP, "7", "5", "F", SP, "7", "2", ",", "5",
    "F", SP, "H", "i", "g", "h", SP, "C", "o", "o", "l", SP, "O", "K", SP,
    "0", CR, LF>>

\* 8 fields, no number in field 3
LineBadTemperature ==
    <<"1", "0", "1", SP, "O", "N", SP, "7", "5", "F", SP, "7", ",", "2", ",",
    "5", "F", SP, "H", "i", "g", "h", SP, "C", "o", "o", "l", SP, "O", "K",
    SP, "0", CR, LF>>

\* 7 fields
LineShort ==
    <<"1", "0", "1", SP, "O", "F", "F", SP, "3", "2", "C", SP, "0", "4", ",",
    "9", "3", "C", SP, "L", "o", "w", SP, SP, "D", "r", "y", SP, SP, "O", "K",
    CR, LF>>

\* the answer to "stat2": one status line per unit
ListTwo ==
    <<"1", "0", "1", SP, "O", "F", "F", SP, "3", "2", "C", SP, "0", "4", ",",
    "9", "3", "C", SP, "L", "o", "w", SP, SP, "D", "r", "y", SP, SP, "O", "K",
    SP, "1", CR, LF, "1", "0", "2", SP, "O", "N", SP, "7", "5", "F", SP, "7",
    "2", ",", "5", "F", SP, "H", "i", "g", "h", SP, "C", "o", "o", "l", SP,
    "O", "K", SP, "0", CR, LF>>

\* a listing whose second line has 2 characters
ListShortLine ==
    <<"1", "0", "1", SP, "O", "F", "F", SP, "3", "2", "C", SP, "0", "4", ",",
    "9", "3", "C", SP, "L", "o", "w", SP, SP, "D", "r", "y", SP, SP, "O", "K",
    SP, "1", CR, LF, "L", "2", CR, LF>>

StatusTexts == {LineOff, LineOn, LineBadTemperature, LineShort}

\* answers to "query <uid> s": a swing character, nothing, an unknown character
SwingTexts == {<<"h", CR, LF>>, <<>>, <<"x", CR, LF>>}

ListTexts == {ListTwo, LineOn, ListShortLine, <<>>}

ModeValues == {T_cool, T_bogus}

SwingValues == {T_horizontal, T_bogus}

FanValues == {T_low}

TempValues == {<<"2", "4">>}

\* The bridge's well-formed answer to a command line: the echo of the line,
\* the text, "OK\r\n" and the prompt
Reply(request, text) == request \o CRLF \o text \o OKLINE \o GT

Env(openFails, closeFails, io, sync, reply) ==
    [openFails |-> openFails, closeFails |-> closeFails, io |-> io,
     sync |-> sync, reply |-> reply]

GoodEnv(reply) == Env(FALSE, FALSE, "none", PROMPT, reply)

\* One exchange that goes wrong in one way: the prompt does not come, the
\* answer stops before its terminator and the read timeout elapses, close
\* reports an error, a read fails, or the port cannot be opened.
FaultEnvs(request, text) ==
    { Env(FALSE, FALSE, "none", <<>>, Reply(request, text)),
      Env(FALSE, FALSE, "none", PROMPT, request \o CRLF \o RStrip(text)),
      Env(FALSE, TRUE, "none", PROMPT, Reply(request, text)),
      Env(FALSE, FALSE, "read_resp", PROMPT, Reply(request, text)),
      Env(TRUE, FALSE, "none", PROMPT, Reply(request, text)) }

\* The environments of one exchange of a Device or of devices(): every text
\* well framed, and the faults around one of them
Envs(request, texts, sample) ==
    { GoodEnv(Reply(request, t)) : t \in texts } \cup FaultEnvs(request, sample)

\* Stands for the environment of an exchange that does not take place
NoEnv == GoodEnv(<<>>)

-----------------------------------------------------------------------------
(* The handlers *)

\* _update_status (lines 133-155): p is the outcome of its first half, e2
\* the environment of the swing request, t the time read at line 155
UpdateStatus(p, e2, t) == IF p.exc # NoExc THEN p ELSE SwingPhase(p, e2, t)

\* update_and_get (lines 36-38) after _update_if_needed, whose outcome is u
GetAfter(u, a) ==
    LET r == ReadAccessor(u.dev, a)
    IN  IF u.exc # NoExc THEN u ELSE [u EXCEPT !.exc = r.exc, !.ret = r.ret]

\* SetMode without the test of line 172
SetMode_Unchecked(d, s, value, env) == Command(d, s, ModeFormat(value), env)

\* set_mode (lines 171-178)
SetMode(d, s, value, env) ==
    IF ValidMode(value) THEN Command(d, s, ModeFormat(value), env)
    ELSE Outcome(d, s, "ValueError:Unrecognized mode", <<>>, FALSE)

\* set_swing (lines 184-193)
SetSwing(d, s, value, env) ==
    IF ValidSwing(value) THEN Command(d, s, SwingFormat(value), env)
    ELSE Outcome(d, s, "ValueError:Unrecognized swing mode", <<>>, FALSE)

\* set_fan_speed (lines 167-169)
SetFanSpeed(d, s, value, env) == Command(d, s, FanFormat(value), env)

\* set_thermostat (lines 180-182)
SetThermostat(d, s, value, env) == Command(d, s, TempFormat(value), env)

\* turn_on (lines 195-198)
TurnOn(d, s, env) == Command(d, s, OnFormat, env)

\* turn_off (lines 200-203)
TurnOff(d, s, env) == Command(d, s, OffFormat, env)

\* devices (lines 99-106): the list of new Device objects
DevicesOp(s, auto, env) ==
    LET r    == MakeRequest(s, T_stat2, env)
        uids == DeviceUids(r.body)
    IN  IF r.exc # NoExc
        THEN [ser |-> r.ser, exc |-> r.exc, reqs |-> <<T_stat2>>,
              timeout |-> r.timeout, ret |-> <<>>]
        ELSE [ser |-> r.ser, exc |-> NoExc, reqs |-> <<T_stat2>>,
              timeout |-> r.timeout,
              ret |-> << [i \in 1..Len(uids) |-> NewDevice(uids[i], auto)] >>]

-----------------------------------------------------------------------------
(* The Device cache (Spec): calls on a Device object of a bridge *)

CommandOps == {"turn_on", "turn_off", "set_mode", "set_swing", "set_fan_speed",
               "set_thermostat"}

NoCall ==
    [op |-> "none", d |-> 0, arg |-> <<>>, exc |-> NoExc, ret |-> <<>>,
     reqs |-> <<>>, timeout |-> FALSE, afterCommand |-> FALSE]

\* No exchange was observed
NoXch == [request |-> <<>>, env |-> NoEnv,
          res |-> [ser |-> "None", exc |-> NoExc, body |-> <<>>, wire |-> <<>>,
                   timeout |-> FALSE, closed |-> FALSE, tryExc |-> NoExc]]

\* No thread is modelled: every call is made by the one caller
NoThreads == pc = <<>> /\ inbuf = <<>> /\ mutex = "unused"

\* A bridge that was not used yet and one Device object of it
Init ==
    /\ ser = "None"
    /\ bridgeAuto \in BOOLEAN
    /\ now = FirstTime
    /\ dev = <<NewDevice(U101, bridgeAuto)>>
    /\ last = NoCall
    /\ refreshedAt = <<0>>
    /\ xch = NoXch
    /\ NoThreads

\* The record of a call op(arg) on object i with outcome o.  afterCommand:
\* the call before it was a command on the same object that succeeded.
Called(op, i, arg, o) ==
    [op |-> op, d |-> i, arg |-> arg, exc |-> o.exc,
     ret |-> o.ret, reqs |-> o.reqs, timeout |-> o.timeout,
     afterCommand |-> last.op \in CommandOps /\ last.exc = NoExc /\ last.d = i]

\* time passes between two calls
Tick ==
    /\ now < MaxTime
    /\ now' = now + 1
    /\ UNCHANGED <<ser, bridgeAuto, dev, last, refreshedAt, xch, threadVars>>

\* Return with one cache per uid: every object of the uid of object i gets
\* the attributes that the call on object i set
Return_PerUid(op, i, arg, o, refreshed, pure) ==
    /\ dev' = [j \in DOMAIN dev |->
                  IF dev[j].uid = dev[i].uid THEN o.dev ELSE dev[j]]
    /\ ser' = o.ser
    /\ last' = Called(op, i, arg, o)
    /\ refreshedAt' = [refreshedAt EXCEPT ![i] =
                          IF ~pure \/ @ < 0 THEN -1
                          ELSE IF refreshed THEN now ELSE @]
    /\ UNCHANGED <<bridgeAuto, now, xch, threadVars>>

\* A call on object i has outcome o; refreshed: it held a refresh that
\* succeeded; pure: it was a call of a status property.
Return(op, i, arg, o, refreshed, pure) ==
    /\ dev' = [dev EXCEPT ![i] = o.dev]
    /\ ser' = o.ser
    /\ last' = Called(op, i, arg, o)
    /\ refreshedAt' = [refreshedAt EXCEPT ![i] =
                          IF ~pure \/ @ < 0 THEN -1
                          ELSE IF refreshed THEN now ELSE @]
    /\ UNCHANGED <<bridgeAuto, now, xch, threadVars>>

StatusEnvs(d) == Envs(StatRequest(d.uid), StatusTexts, LineOff)

\* The environments of the second exchange of a refresh, which takes place
\* when the first one and the decoding of its answer raised nothing
SecondEnvs(p) ==
    IF p.exc = NoExc
    THEN Envs(SwingRequest(p.dev.uid), SwingTexts, <<"h", CR, LF>>)
    ELSE {NoEnv}

\* device.<property>: autoupdate_property (lines 35-40) and _update_if_needed
\* (lines 128-131) around the function of the property
CallGet(i) ==
    IF NeedsUpdate(dev[i], now)
    THEN \E e1 \in StatusEnvs(dev[i]) :
         \E p \in {StatusPhase(dev[i], ser, e1)} :
         \E e2 \in SecondEnvs(p) :
         \E u \in {UpdateStatus(p, e2, now)} :
         \E a \in AccessorsRead :
         \E o \in {GetAfter(u, a)} :
             Return("get", i, <<a>>, o, u.exc = NoExc, TRUE)
    ELSE \E a \in AccessorsRead :
         \E o \in {GetAfter(Outcome(dev[i], ser, NoExc, <<>>, FALSE), a)} :
             Return("get", i, <<a>>, o, FALSE, TRUE)

\* CallUpdateStatus without the _clear_status of line 208
CallUpdateStatus_NoClear(i) ==
    \E e1 \in StatusEnvs(dev[i]) :
    \E p \in {StatusPhase(dev[i], ser, e1)} :
    \E e2 \in SecondEnvs(p) :
    \E o \in {UpdateStatus(p, e2, now)} :
        Return("update_status", i, <<>>, o, FALSE, FALSE)

\* device.update_status() (lines 205-209)
CallUpdateStatus(i) ==
    \E e1 \in StatusEnvs(dev[i]) :
    \E p \in {StatusPhase(ClearStatus(dev[i]), ser, e1)} :
    \E e2 \in SecondEnvs(p) :
    \E o \in {UpdateStatus(p, e2, now)} :
        Return("update_status", i, <<>>, o, FALSE, FALSE)

CommandEnvs(d, format_str) ==
    Envs(Replace(format_str, T_UID, d.uid), {<<>>}, <<>>)

\* device.turn_on()
CallTurnOn(i) ==
    /\ \E env \in CommandEnvs(dev[i], OnFormat) :
       \E o \in {TurnOn(dev[i], ser, env)} :
           Return("turn_on", i, <<>>, o, FALSE, FALSE)

\* device.turn_off()
CallTurnOff(i) ==
    /\ \E env \in CommandEnvs(dev[i], OffFormat) :
       \E o \in {TurnOff(dev[i], ser, env)} :
           Return("turn_off", i, <<>>, o, FALSE, FALSE)

\* device.set_mode(value)
CallSetMode(i, value) ==
    /\ \E env \in (IF ValidMode(value)
                   THEN CommandEnvs(dev[i], ModeFormat(value)) ELSE {NoEnv}) :
       \E o \in {SetMode(dev[i], ser, value, env)} :
           Return("set_mode", i, value, o, FALSE, FALSE)

\* device.set_swing(value)
CallSetSwing(i, value) ==
    /\ \E env \in (IF ValidSwing(value)
                   THEN CommandEnvs(dev[i], SwingFormat(value)) ELSE {NoEnv}) :
       \E o \in {SetSwing(dev[i], ser, value, env)} :
           Return("set_swing", i, value, o, FALSE, FALSE)

\* device.set_fan_speed(value)
CallSetFanSpeed(i, value) ==
    /\ \E env \in CommandEnvs(dev[i], FanFormat(value)) :
       \E o \in {SetFanSpeed(dev[i], ser, value, env)} :
           Return("set_fan_speed", i, <<>>, o, FALSE, FALSE)

\* device.set_thermostat(value)
CallSetThermostat(i, value) ==
    /\ \E env \in CommandEnvs(dev[i], TempFormat(value)) :
       \E o \in {SetThermostat(dev[i], ser, value, env)} :
           Return("set_thermostat", i, <<>>, o, FALSE, FALSE)

Next ==
    \/ Tick
    \/ \E i \in DevIds : CallGet(i)
    \/ \E i \in DevIds : CallUpdateStatus(i)
    \/ \E i \in DevIds : CallTurnOn(i)
    \/ \E i \in DevIds : CallTurnOff(i)
    \/ \E i \in DevIds, value \in ModeValues : CallSetMode(i, value)
    \/ \E i \in DevIds, value \in SwingValues : CallSetSwing(i, value)
    \/ \E i \in DevIds, value \in FanValues : CallSetFanSpeed(i, value)
    \/ \E i \in DevIds, value \in TempValues : CallSetThermostat(i, value)

Spec == Init /\ [][Next]_vars

-----------------------------------------------------------------------------
(* The bridge (SpecBridge): exchanges on the serial port and devices() *)

\* The ways the bytes after the synchronising empty line can be wrong: none
\* at all, a prompt without the line terminator, two prompts, text before it
BadSyncs ==
    {<<>>, GT, <<CR, LF, CR, LF, ">">>, <<"O", "K", CR, LF, ">">>}

\* The ways an answer can be framed: as the bridge should; without "OK";
\* cut before its terminator (the read timeout elapses); ended by ">" with no
\* line terminator before it and then nothing; without the echo
Framings(request, text) ==
    { Reply(request, text),
      request \o CRLF \o text \o GT,
      request \o CRLF \o RStrip(text),
      request \o CRLF \o RStrip(text) \o GT,
      text \o OKLINE \o GT }

\* The environments of one exchange on the bridge: every framing of every
\* text, every wrong prompt, every I/O fault and a port that does not open,
\* each with a close that works and one that reports an error
WireEnvs(request, texts, sample) ==
    LET good == Reply(request, sample)
    IN  { Env(FALSE, c, "none", PROMPT, f) :
            c \in BOOLEAN, f \in UNION {Framings(request, t) : t \in texts} }
        \cup { Env(FALSE, c, "none", y, good) : c \in BOOLEAN, y \in BadSyncs }
        \cup { Env(FALSE, c, io, PROMPT, good) : c \in BOOLEAN,
               io \in {"none", "write_sync", "read_sync", "write_cmd",
                       "read_echo", "read_resp"} }
        \cup { Env(TRUE, c, "none", PROMPT, good) : c \in BOOLEAN }

\* A bridge that was not used yet; no Device object is held
InitBridge ==
    /\ ser = "None"
    /\ bridgeAuto \in BOOLEAN
    /\ now = FirstTime
    /\ dev = <<>>
    /\ last = NoCall
    /\ refreshedAt = <<>>
    /\ xch = NoXch
    /\ NoThreads

\* bridge._make_request(request), the execute of the specification
CallMakeRequest(request, env) ==
    \E r \in {MakeRequest(ser, request, env)} :
        /\ ser' = r.ser
        /\ xch' = [request |-> request, env |-> env, res |-> r]
        /\ last' = Called("execute", 0, <<>>,
                          [exc |-> r.exc, reqs |-> <<request>>,
                           timeout |-> r.timeout,
                           ret |-> IF r.exc = NoExc THEN <<r.body>> ELSE <<>>])
        /\ UNCHANGED <<bridgeAuto, now, dev, refreshedAt, threadVars>>

\* bridge.devices(); the new objects are in the list returned
CallDevices(env) ==
    \E r \in {MakeRequest(ser, T_stat2, env)} :
    \E o \in {DevicesOp(ser, bridgeAuto, env)} :
        /\ ser' = o.ser
        /\ xch' = [request |-> T_stat2, env |-> env, res |-> r]
        /\ last' = Called("devices", 0, <<>>, o)
        /\ UNCHANGED <<bridgeAuto, now, dev, refreshedAt, threadVars>>

NextBridge ==
    \/ \E env \in WireEnvs(StatRequest(U101), {LineOff, LineShort}, LineOff) :
          CallMakeRequest(StatRequest(U101), env)
    \/ \E env \in WireEnvs(SwingRequest(U101), SwingTexts, <<"h", CR, LF>>) :
          CallMakeRequest(SwingRequest(U101), env)
    \/ \E env \in WireEnvs(T_stat2, ListTexts, ListTwo) : CallDevices(env)

SpecBridge == InitBridge /\ [][NextBridge]_vars

-----------------------------------------------------------------------------
(* Decoding (SpecDecode): refreshes of one Device over well-framed answers; *)
(* the record of a call keeps the texts the bridge answered with           *)

SwingH == <<"h", CR, LF>>

\* 9 fields
LineLong ==
    <<"1", "0", "1", SP, "O", "N", SP, "7", "5", "F", SP, "7", "2", ",", "5",
    "F", SP, "H", "i", "g", "h", SP, "C", "o", "o", "l", SP, "O", "K", SP,
    "0", SP, "-", CR, LF>>

\* 8 fields, a decimal comma in field 2
LineCommaThermostat ==
    <<"1", "0", "1", SP, "O", "N", SP, "2", "2", ",", "5", "C", SP, "0", "4",
    ",", "9", "3", "C", SP, "L", "o", "w", SP, "D", "r", "y", SP, "O", "K",
    SP, "1", CR, LF>>

\* 8 fields, "on" and the unit letter in lower case, a decimal point in
\* field 3, tabs between fields
LineLower ==
    <<"1", "0", "1", TAB, "o", "n", TAB, "7", "5", "f", TAB, "7", "2", ".",
    "5", "f", TAB, "H", "I", "G", "H", TAB, "A", "u", "t", "o", TAB, "O",
    "K", TAB, "0", CR, LF>>

\* The answers of the two exchanges of a refresh: every status text with one
\* swing text, every swing text with one status text
DecodeInputs ==
    {<<st, SwingH>> :
        st \in {LineOff, LineOn, LineBadTemperature, LineShort, LineLong,
                LineCommaThermostat, LineLower, <<>>}}
    \cup {<<LineOn, <<c, CR, LF>> >> :
            c \in {"-", "0", "a", "h", "3", "4", "6", "v", "x", "H"}}
    \cup {<<LineOn, <<>> >>}

InitDecode ==
    /\ ser = "None"
    /\ bridgeAuto \in BOOLEAN
    /\ now = FirstTime
    /\ dev = <<NewDevice(U101, bridgeAuto)>>
    /\ last = NoCall
    /\ refreshedAt = <<0>>
    /\ xch = NoXch
    /\ NoThreads

\* _update_status (lines 133-155) on d when the bridge answers with texts
Refreshed(d, s, texts, t) ==
    LET p == StatusPhase(d, s, GoodEnv(Reply(StatRequest(d.uid), texts[1])))
    IN  UpdateStatus(p, GoodEnv(Reply(SwingRequest(d.uid), texts[2])), t)

\* device.update_status()
DecodeUpdateStatus(texts) ==
    \E o \in {Refreshed(ClearStatus(dev[1]), ser, texts, now)} :
        Return("update_status", 1, texts, o, FALSE, FALSE)

\* device.status
DecodeGet(texts) ==
    IF NeedsUpdate(dev[1], now)
    THEN \E u \in {Refreshed(dev[1], ser, texts, now)} :
         \E o \in {GetAfter(u, "status")} :
             Return("get", 1, texts, o, u.exc = NoExc, TRUE)
    ELSE \E o \in {GetAfter(Outcome(dev[1], ser, NoExc, <<>>, FALSE), "status")} :
             Return("get", 1, <<>>, o, FALSE, TRUE)

\* device.set_swing(value)
DecodeSetSwing(value) ==
    \E env \in {IF ValidSwing(value)
                THEN GoodEnv(Reply(Replace(SwingFormat(value), T_UID, dev[1].uid),
                                   <<>>))
                ELSE NoEnv} :
    \E o \in {SetSwing(dev[1], ser, value, env)} :
        Return("set_swing", 1, value, o, FALSE, FALSE)

\* device.update_status() right after a set_swing that succeeded, the bridge
\* answering the query with the character it was sent; the record keeps the
\* name that was set
DecodeRoundTrip ==
    /\ last.op = "set_swing" /\ last.exc = NoExc
    /\ \E c \in {last.reqs[1][Len(last.reqs[1])]} :
       \E o \in {Refreshed(ClearStatus(dev[1]), ser, <<LineOn, <<c, CR, LF>> >>, now)} :
           Return("update_status", 1, <<LineOn, <<c, CR, LF>>, last.arg>>, o,
                  FALSE, FALSE)

NextDecode ==
    \/ Tick
    \/ \E texts \in DecodeInputs : DecodeUpdateStatus(texts)
    \/ \E texts \in DecodeInputs : DecodeGet(texts)
    \/ \E value \in DOMAIN SWING_NAME_TO_CHAR \cup {T_bogus} : DecodeSetSwing(value)
    \/ DecodeRoundTrip

SpecDecode == InitDecode /\ [][NextDecode]_vars

-----------------------------------------------------------------------------
(* Two objects (SpecPair): the caller holds two CoolMasterDevice objects   *)
(* of one unit of one bridge                                               *)

InitPair ==
    /\ ser = "None"
    /\ bridgeAuto \in BOOLEAN
    /\ now = FirstTime
    /\ dev = <<NewDevice(U101, bridgeAuto), NewDevice(U101, bridgeAuto)>>
    /\ last = NoCall
    /\ refreshedAt = <<0, 0>>
    /\ xch = NoXch
    /\ NoThreads

\* The environments of an exchange of the pair: every text well framed, and
\* a prompt that does not come
PairEnvs(request, texts) ==
    { GoodEnv(Reply(request, t)) : t \in texts }
    \cup { Env(FALSE, FALSE, "none", <<>>, <<>>) }

\* The outcomes of _update_status on d at time t: the unit is reported off
\* or on, its swing horizontal, or a prompt does not come
PairRefreshes(d, s, t) ==
    UNION { LET p == StatusPhase(d, s, e1)
            IN  { UpdateStatus(p, e2, t) :
                    e2 \in IF p.exc = NoExc
                           THEN PairEnvs(SwingRequest(d.uid), {SwingH})
                           ELSE {NoEnv} } :
            e1 \in PairEnvs(StatRequest(d.uid), {LineOff, LineOn}) }

\* device.status on object i
PairGet(i) ==
    IF NeedsUpdate(dev[i], now)
    THEN \E u \in PairRefreshes(dev[i], ser, now) :
         \E o \in {GetAfter(u, "status")} :
             Return("get", i, <<"status">>, o, u.exc = NoExc, TRUE)
    ELSE \E o \in {GetAfter(Outcome(dev[i], ser, NoExc, <<>>, FALSE), "status")} :
             Return("get", i, <<"status">>, o, FALSE, TRUE)

\* device.update_status() on object i
PairUpdateStatus(i) ==
    \E o \in PairRefreshes(ClearStatus(dev[i]), ser, now) :
        Return("update_status", i, <<>>, o, FALSE, FALSE)

\* device.turn_on() on object i
PairTurnOn(i) ==
    \E env \in PairEnvs(Replace(OnFormat, T_UID, dev[i].uid), {<<>>}) :
    \E o \in {TurnOn(dev[i], ser, env)} :
        Return("turn_on", i, <<>>, o, FALSE, FALSE)

NextPair ==
    \/ Tick
    \/ \E i \in DevIds : PairGet(i)
    \/ \E i \in DevIds : PairUpdateStatus(i)
    \/ \E i \in DevIds : PairTurnOn(i)

SpecPair == InitPair /\ [][NextPair]_vars

-----------------------------------------------------------------------------
(* Threads (SpecThreads): two threads call _make_request on one bridge,    *)
(* statement by statement; the bridge at the other end answers every line  *)
(* it receives at once, and its answers queue in inbuf until they are read.   *)
(* The callers either wrap every call in one lock (mutex) or use none.     *)

Threads == {1, 2}

\* the command each thread sends, call after call
ThreadRequest == <<StatRequest(U101), SwingRequest(U101)>>

\* the text the bridge answers a command with
AnswerTo(request) == IF request = StatRequest(U101) THEN LineOff ELSE SwingH

InitThreads ==
    /\ ser = "None"
    /\ bridgeAuto \in BOOLEAN
    /\ now = FirstTime
    /\ dev = <<>>
    /\ last = NoCall
    /\ refreshedAt = <<>>
    /\ xch = NoXch
    /\ pc = [t \in Threads |-> [at |-> "idle", exc |-> NoExc, body |-> <<>>]]
    /\ inbuf = <<>>
    /\ mutex \in {"unused", "free"}

\* thread t moves to position at, having raised e (NoExc: nothing)
Goto(t, at, e) == pc' = [pc EXCEPT ![t].at = at, ![t].exc = e]

\* thread t cannot go on because the port is not open: the write or read
\* raises, and the finally block is next
Fails(t) ==
    /\ Goto(t, "close", "SerialException:port not open")
    /\ UNCHANGED <<ser, inbuf, mutex>>

Unchanged == UNCHANGED <<bridgeAuto, now, dev, last, refreshedAt, xch>>

\* ThreadBegin that does not wait for the lock to be free
ThreadBegin_NoWait(t) ==
    /\ pc[t].at \in {"idle", "done"}
    /\ mutex' = IF mutex = "free" THEN "held" ELSE mutex
    /\ pc' = [pc EXCEPT ![t] = [at |-> "open", exc |-> NoExc, body |-> <<>>]]
    /\ UNCHANGED <<ser, inbuf>> /\ Unchanged

\* thread t calls _make_request (line 72), after taking the lock if the
\* callers use one
ThreadBegin(t) ==
    /\ pc[t].at \in {"idle", "done"}
    /\ mutex # "held"
    /\ mutex' = IF mutex = "free" THEN "held" ELSE mutex
    /\ pc' = [pc EXCEPT ![t] = [at |-> "open", exc |-> NoExc, body |-> <<>>]]
    /\ UNCHANGED <<ser, inbuf>> /\ Unchanged

\* line 74: _open(), which leaves a port that is open as it is
ThreadOpen(t) ==
    /\ pc[t].at = "open"
    /\ ser' = Open(ser, NoEnv).ser
    /\ Goto(t, "write_sync", NoExc)
    /\ UNCHANGED <<inbuf, mutex>> /\ Unchanged

\* line 77: the empty line is written, and the bridge answers with a prompt
ThreadWriteSync(t) ==
    /\ pc[t].at = "write_sync"
    /\ IF ser # "open" THEN Fails(t)
       ELSE /\ inbuf' = inbuf \o PROMPT
            /\ Goto(t, "read_sync", NoExc)
            /\ UNCHANGED <<ser, mutex>>
    /\ Unchanged

\* lines 78-79: read_until(b">") and its comparison with the prompt
ThreadReadSync(t) ==
    /\ pc[t].at = "read_sync"
    /\ IF ser # "open" THEN Fails(t)
       ELSE \E r \in {ReadUntil(inbuf, GT)} :
            /\ inbuf' = r.rest
            /\ IF r.data = PROMPT THEN Goto(t, "write_cmd", NoExc)
               ELSE Goto(t, "close", PromptNotFound)
            /\ UNCHANGED <<ser, mutex>>
    /\ Unchanged

\* lines 81-82: the command line is written, and the bridge answers with
\* its echo, the text, "OK" and a prompt
ThreadWriteCmd(t) ==
    /\ pc[t].at = "write_cmd"
    /\ IF ser # "open" THEN Fails(t)
       ELSE /\ inbuf' = inbuf \o Reply(ThreadRequest[t], AnswerTo(ThreadRequest[t]))
            /\ Goto(t, "read_echo", NoExc)
            /\ UNCHANGED <<ser, mutex>>
    /\ Unchanged

\* line 84: read_until(request), the result of which is dropped
ThreadReadEcho(t) ==
    /\ pc[t].at = "read_echo"
    /\ IF ser # "open" THEN Fails(t)
       ELSE /\ inbuf' = ReadUntil(inbuf, ThreadRequest[t] \o CRLF).rest
            /\ Goto(t, "read_resp", NoExc)
            /\ UNCHANGED <<ser, mutex>>
    /\ Unchanged

\* lines 86-95: read_until(b"\r\n>") and the stripping of what it returned
ThreadReadResp(t) ==
    /\ pc[t].at = "read_resp"
    /\ IF ser # "open" THEN Fails(t)
       ELSE \E r \in {ReadUntil(inbuf, PROMPT)} :
            /\ inbuf' = r.rest
            /\ pc' = [pc EXCEPT ![t].at = "close",
                                ![t].body = StripResponse(r.data)]
            /\ UNCHANGED <<ser, mutex>>
    /\ Unchanged

\* lines 96-97: close(), which drops what was received and not read; the
\* call returns pc[t].body or raises pc[t].exc, and the lock is released
ThreadClose(t) ==
    /\ pc[t].at = "close"
    /\ ser' = "closed"
    /\ inbuf' = <<>>
    /\ mutex' = IF mutex = "held" THEN "free" ELSE mutex
    /\ pc' = [pc EXCEPT ![t].at = "done"]
    /\ Unchanged

NextThreads ==
    \/ \E t \in Threads : ThreadBegin(t)
    \/ \E t \in Threads : ThreadOpen(t)
    \/ \E t \in Threads : ThreadWriteSync(t)
    \/ \E t \in Threads : ThreadReadSync(t)
    \/ \E t \in Threads : ThreadWriteCmd(t)
    \/ \E t \in Threads : ThreadReadEcho(t)
    \/ \E t \in Threads : ThreadReadResp(t)
    \/ \E t \in Threads : ThreadClose(t)

SpecThreads == InitThreads /\ [][NextThreads]_vars

-----------------------------------------------------------------------------
(* Properties of the Device cache, checked under Spec *)

\* A step is a call when the clock stands still; last' then describes it.
RefreshOps == {"get", "update_status"}

\* C1: a refresh (update_status, or the one a property triggers) that raises
\* leaves every cached status field as it was before the refresh began
\* (stated for the refreshes all of whose answers came complete).
C1_RefreshAtomic ==
    [][ (now' = now /\ last'.op \in RefreshOps /\ last'.reqs # <<>>
         /\ last'.exc # NoExc /\ ~last'.timeout)
        => Snapshot(dev'[last'.d]) = Snapshot(dev[last'.d]) ]_vars

\* C2: on a Device with auto-update on which only properties were read so
\* far, reading a property less than 1 time unit after the last successful
\* refresh makes no exchange; reading one 1 time unit or more after it, or
\* with no refresh before, starts exactly one refresh: "stat2 <uid>" first,
\* at most one "query <uid> s" after it and nothing else, and a value is
\* returned only after both.
C2_OneRefreshWhenStale ==
    [][ \A i \in DevIds :
          (now' = now /\ last'.op = "get" /\ last'.d = i /\ dev[i].auto_update
           /\ refreshedAt[i] >= 0)
          => IF refreshedAt[i] > 0 /\ now - refreshedAt[i] < 1
             THEN last'.reqs = <<>> /\ last'.exc = NoExc
             ELSE /\ last'.reqs \in {<<StatRequest(dev[i].uid)>>,
                                     <<StatRequest(dev[i].uid),
                                       SwingRequest(dev[i].uid)>>}
                  /\ last'.exc = NoExc => Len(last'.reqs) = 2 ]_vars

\* C2's case: a property was read from the cache, less than 1 time unit
\* after a refresh that succeeded
C2_Witness ==
    \E i \in DevIds :
        /\ last.op = "get" /\ last.d = i /\ last.reqs = <<>> /\ last.exc = NoExc
        /\ dev[i].auto_update
        /\ refreshedAt[i] > 0 /\ now - refreshedAt[i] < 1

\* C3 as stated: after a command that succeeded, the next read of a property
\* of that Device performs a refresh.
C3_RefreshAfterCommand ==
    (last.op = "get" /\ last.afterCommand) => last.reqs # <<>>

\* C3, amended: ... of that Device, if its auto-update is enabled, performs a
\* refresh, whatever the time since the refresh before.
C3_RefreshAfterCommandAuto ==
    (last.op = "get" /\ last.afterCommand /\ dev[last.d].auto_update)
    => /\ last.reqs # <<>>
       /\ last.reqs[1] = StatRequest(dev[last.d].uid)

\* C3's case: a property read right after a command, at the time of the
\* refresh before the command, and the refresh it made succeeded
C3_Witness ==
    /\ last.op = "get" /\ last.afterCommand /\ dev[last.d].auto_update
    /\ Len(last.reqs) = 2 /\ last.exc = NoExc
    /\ now = FirstTime

\* C4: set_mode and set_swing with a value outside their sets raise the
\* invalid-argument error, pass no request to the bridge, and leave the
\* port, the timestamp and the cached status as they were.
C4_InvalidArgument ==
    [][ (now' = now
         /\ \/ /\ last'.op = "set_mode"
               /\ last'.arg \notin {T_auto, T_cool, T_dry, T_fan, T_heat}
            \/ /\ last'.op = "set_swing"
               /\ last'.arg \notin {T_auto, T_horizontal, T_30, T_45, T_60,
                                    T_vertical})
        => /\ last'.exc \in {"ValueError:Unrecognized mode",
                             "ValueError:Unrecognized swing mode"}
           /\ last'.reqs = <<>>
           /\ ser' = ser
           /\ dev' = dev ]_vars

\* C4's case: set_mode("bogus") was refused on a Device that holds a cached
\* status, and set_swing("bogus") on a bridge whose port was never opened
C4_Witness ==
    \/ /\ last.op = "set_mode" /\ last.arg = T_bogus
       /\ last.exc = "ValueError:Unrecognized mode"
       /\ dev[last.d].last_refresh_time > 0
    \/ /\ last.op = "set_swing" /\ last.arg = T_bogus
       /\ last.exc = "ValueError:Unrecognized swing mode"
       /\ ser = "None"

\* C6: with auto-update disabled, reading a property makes no exchange and
\* returns the cached value; on a Device never refreshed it returns an
\* absent value and does not fail.
C6_NoAutoUpdateReturns ==
    (last.op = "get" /\ ~dev[last.d].auto_update)
    => /\ last.reqs = <<>>
       /\ last.exc = NoExc

\* C7: when the terminator of an answer never comes and the read timeout
\* elapses, the call fails; a refresh driven by such an exchange raises and
\* leaves the cached status unchanged.
C7_TimeoutFails ==
    [][ (now' = now /\ last'.op \in RefreshOps /\ last'.timeout)
        => /\ last'.exc # NoExc
           /\ Snapshot(dev'[last'.d]) = Snapshot(dev[last'.d]) ]_vars

\* C17: the timestamp of a Device moves forward only in a refresh whose two
\* requests and decoding succeeded, and then to the current time; a refresh
\* that failed does not advance it, so that with auto-update the next read
\* of a property finds the cache stale and refreshes again.
C17_TimestampOnSuccess ==
    [][ \A i \in DevIds :
          (now' = now /\ last'.d = i)
          => /\ dev'[i].last_refresh_time > dev[i].last_refresh_time
                => /\ last'.op \in RefreshOps
                   /\ last'.exc = NoExc
                   /\ Len(last'.reqs) = 2
                   /\ dev'[i].last_refresh_time = now
             /\ (last'.op \in RefreshOps /\ last'.reqs # <<>>
                 /\ last'.exc # NoExc)
                => /\ dev'[i].last_refresh_time <= dev[i].last_refresh_time
                   /\ dev'[i].auto_update
                      => now - dev'[i].last_refresh_time >= 1 ]_vars

\* C17's case: with auto-update, a refresh that a property read started
\* failed at the swing character, the last step before the timestamp, on a
\* Device refreshed before
C17_Witness ==
    /\ last.op = "get" /\ last.exc = "KeyError"
    /\ dev[last.d].auto_update
    /\ dev[last.d].last_refresh_time > 0
    /\ dev[last.d].last_refresh_time < now

\* C18: a command whose exchange fails raises and leaves the Device as it
\* was, timestamp and cached status; a property read right after it, less
\* than 1 time unit after the refresh before, returns from the cache and
\* makes no exchange.
C18_FailedCommandKeepsCache ==
    [][ \A i \in DevIds :
          /\ (now' = now /\ last'.d = i /\ last'.op \in CommandOps
              /\ last'.reqs # <<>> /\ last'.exc # NoExc)
             => dev'[i] = dev[i]
          /\ (now' = now /\ last'.d = i /\ last'.op = "get"
              /\ last.d = i /\ last.op \in CommandOps
              /\ last.reqs # <<>> /\ last.exc # NoExc
              /\ dev[i].last_refresh_time > 0
              /\ now - dev[i].last_refresh_time < 1)
             => /\ last'.reqs = <<>>
                /\ last'.exc = NoExc
                /\ dev'[i] = dev[i] ]_vars

\* C18's case: the exchange of a command failed on a Device refreshed at
\* the current time
C18_Witness ==
    /\ last.op \in CommandOps /\ last.reqs # <<>> /\ last.exc # NoExc
    /\ dev[last.d].last_refresh_time = now
    /\ dev[last.d].swing_mode = <<T_horizontal>>

\* C19: update_status starts a refresh whatever the age of the cache and
\* the auto-update flag: "stat2 <uid>" is requested, and "query <uid> s"
\* after it when nothing failed; the timestamp is reset before the first
\* request, so it is the current time after a refresh that succeeded and 0,
\* not the time of an earlier refresh, after one that failed.
C19_ExplicitRefresh ==
    [][ \A i \in DevIds :
          (now' = now /\ last'.d = i /\ last'.op = "update_status")
          => /\ last'.reqs # <<>>
             /\ last'.reqs[1] = StatRequest(dev[i].uid)
             /\ last'.exc = NoExc
                => /\ last'.reqs = <<StatRequest(dev[i].uid),
                                     SwingRequest(dev[i].uid)>>
                   /\ dev'[i].last_refresh_time = now
             /\ last'.exc # NoExc
                => dev'[i].last_refresh_time = 0 ]_vars

\* C19's case: update_status failed at the field count, which changes no
\* status field, on a Device without auto-update that holds the status of an
\* earlier refresh, and the timestamp is 0
C19_Witness ==
    /\ last.op = "update_status"
    /\ last.exc = "Exception:Unexpected status line format"
    /\ ~dev[last.d].auto_update
    /\ dev[last.d].swing_mode = <<T_horizontal>>
    /\ dev[last.d].last_refresh_time = 0

-----------------------------------------------------------------------------
(* Properties of the bridge, checked under SpecBridge *)

\* The exchange observed got as far as reading the answer to the empty line
SyncRead(x) ==
    /\ x.request # <<>>
    /\ ~x.env.openFails
    /\ x.env.io \notin {"write_sync", "read_sync"}

\* The bytes read back after the empty line
SyncBytes(x) == ReadUntil(x.env.sync, GT).data

\* C5: between two calls of _make_request the port is not open, whatever
\* way the call before ended.
C5_ClosedBetweenCalls == ser # "open"

\* C5's case: exchanges that ended on a failed read or write, on a missing
\* prompt, or well, and the port is closed
C5_Witness ==
    /\ ser = "closed"
    /\ xch.res.closed
    /\ xch.res.tryExc \in {"SerialException:read", "SerialException:write"}

\* C8: the command line is written only after the bytes read back for the
\* empty line were exactly "\r\n>"; otherwise the try block raises "prompt
\* not found", the call fails, and only the empty line was written.
C8_CommandAfterPrompt ==
    SyncRead(xch)
    => /\ SyncBytes(xch) # PROMPT
          => /\ xch.res.tryExc = PromptNotFound
             /\ xch.res.exc # NoExc
             /\ xch.res.wire = <<CRLF>>
       /\ Len(xch.res.wire) > 1
          => /\ SyncBytes(xch) = PROMPT
             /\ xch.res.wire = <<CRLF, xch.request \o CRLF>>

\* C8's case: the bridge answered the empty line with something else than
\* the prompt, and the call failed having written the empty line alone
C8_Witness ==
    /\ SyncRead(xch)
    /\ SyncBytes(xch) \in BadSyncs \ {<<>>}
    /\ xch.res.tryExc = PromptNotFound
    /\ xch.res.wire = <<CRLF>>

\* C9: an error of close() in the teardown of an exchange is not reported:
\* the caller gets the answer, or the error, of the exchange itself.
C9_CloseErrorSwallowed ==
    (xch.res.closed /\ xch.env.closeFails)
    => /\ xch.res.exc = xch.res.tryExc
       /\ last.exc = xch.res.tryExc

\* The lines of the answer to "stat2", as devices() cuts them
ListLines(x) == Split(Strip(x.res.body), CRLF)

\* C10: devices() makes one "stat2" exchange; it returns one Device per line
\* of the answer, in order, its uid the first 3 characters of the line, and
\* it fails when a line has fewer than 3 characters (stated for the answers
\* that came complete).
C10_DevicesPerLine ==
    (last.op = "devices" /\ xch.res.exc = NoExc /\ ~xch.res.timeout)
    => /\ last.reqs = <<T_stat2>>
       /\ IF \E k \in 1..Len(ListLines(xch)) : Len(ListLines(xch)[k]) < 3
          THEN last.exc # NoExc
          ELSE /\ last.exc = NoExc
               /\ Len(last.ret[1]) = Len(ListLines(xch))
               /\ \A k \in 1..Len(ListLines(xch)) :
                     last.ret[1][k].uid = SubSeq(ListLines(xch)[k], 1, 3)

\* C12: the body _make_request returns is the raw response with a trailing
\* ">" removed if there is one, then a trailing "OK\r\n" removed if there is
\* one, also when no line terminator stands before the ">".  The raw
\* response is what the read of line 86 returned.
C12_BodyStripped ==
    (last.op = "execute" /\ xch.res.exc = NoExc)
    => LET sync == ReadUntil(xch.env.sync, GT)
           echo == ReadUntil(sync.rest \o xch.env.reply, xch.request \o CRLF)
           raw == ReadUntil(echo.rest, PROMPT).data
           r1  == IF raw # <<>> /\ raw[Len(raw)] = ">"
                  THEN SubSeq(raw, 1, Len(raw) - 1) ELSE raw
           r2  == IF Len(r1) >= 4 /\ SubSeq(r1, Len(r1) - 3, Len(r1)) = <<"O", "K", CR, LF>>
                  THEN SubSeq(r1, 1, Len(r1) - 4) ELSE r1
       IN  last.ret = <<r2>>

\* C15: when the bridge does not echo the command line, _make_request
\* fails; it does not take the answer for the echo and return an empty or
\* cut body.  Stated for the exchanges that got as far as reading the
\* echo, when what the bridge sent after the prompt does not begin with the
\* command line.
C15_EchoRequired ==
    (/\ last.op = "execute"
     /\ SyncRead(xch)
     /\ xch.env.io \notin {"write_cmd", "read_echo"}
     /\ SyncBytes(xch) = PROMPT
     /\ ~MatchAt(ReadUntil(xch.env.sync, GT).rest \o xch.env.reply,
                 xch.request \o CRLF, 1))
    => /\ xch.res.tryExc # NoExc
       /\ last.exc # NoExc

-----------------------------------------------------------------------------
(* Properties of the decoding, checked under SpecDecode *)

\* C11: "-", "0" and an empty swing answer decode to none, "h" to
\* horizontal; a name accepted by set_swing, encoded to its character and
\* decoded from it, is the same name; any other character fails the refresh.
\* Stated for the refreshes that read an answer to "query <uid> s".
C11_SwingCodec ==
    (last.op \in RefreshOps /\ Len(last.arg) >= 2 /\ Len(last.reqs) = 2)
    => LET key == Strip(last.arg[2])
       IN  /\ (last.arg[2] = <<>> \/ key \in {<<"-">>, <<"0">>})
              => last.exc = NoExc /\ dev[1].swing_mode = <<PyNone>>
           /\ key = <<"h">>
              => last.exc = NoExc /\ dev[1].swing_mode = <<T_horizontal>>
           /\ Len(last.arg) = 3
              => last.exc = NoExc /\ dev[1].swing_mode = <<last.arg[3]>>
           /\ (last.arg[2] # <<>>
               /\ key \notin {<<"-">>, <<"0">>, <<"a">>, <<"h">>, <<"3">>,
                               <<"4">>, <<"6">>, <<"v">>})
              => last.exc # NoExc

\* C11's case: set_swing("45") wrote "4", the bridge answered the query with
\* "4" and the refresh decoded it
C11_Witness ==
    /\ last.op \in RefreshOps /\ Len(last.reqs) = 2 /\ Len(last.arg) = 3
    /\ last.arg[3] = T_45 /\ last.arg[2] = <<"4", CR, LF>>
    /\ dev[1].swing_mode = <<T_45>>

\* The refresh recorded in last got an answer to "stat2 <uid>"
StatusRead == last.op \in RefreshOps /\ Len(last.arg) >= 2

\* The fields of that answer, as line 139 cuts them
StatusFields == ReSplitWs(Strip(last.arg[1]))

\* s[:-1] with every "," read as "."
CommaNumber(s) == Replace(DropLast(s, 1), <<",">>, <<".">>)

\* The status attributes of d are those the line of the comment at line 138
\* stands for
IsLineOffStatus(d) ==
    /\ d.is_on = <<FALSE>>
    /\ d.unit = <<"celsius">>
    /\ d.thermostat = << [num |-> 32, den |-> 1] >>
    /\ d.temperature = << [num |-> 493, den |-> 100] >>
    /\ d.fan_speed = << <<"l", "o", "w">> >>
    /\ d.mode = << <<"d", "r", "y">> >>

\* C13 as stated: from an answer of 8 fields whose fields 2 and 3, without
\* their last character and with a decimal comma read as a decimal point,
\* are numbers, the refresh sets on/off (field 1 is "ON"), the unit (field 2
\* ends in "F": imperial, else celsius), both numbers, and fan speed and
\* mode in lower case.
C13_DecodeStatusLine ==
    (StatusRead /\ Len(StatusFields) = 8
     /\ ParseFloat(CommaNumber(StatusFields[3])).ok
     /\ ParseFloat(CommaNumber(StatusFields[4])).ok)
    => /\ Len(last.reqs) = 2
       /\ dev[1].is_on = << StatusFields[2] = <<"O", "N">> >>
       /\ dev[1].unit = << IF StatusFields[3][Len(StatusFields[3])] = "F"
                           THEN "imperial" ELSE "celsius" >>
       /\ dev[1].thermostat = << FloatOf(CommaNumber(StatusFields[3])) >>
       /\ dev[1].temperature = << FloatOf(CommaNumber(StatusFields[4])) >>
       /\ dev[1].fan_speed = << Lower(StatusFields[5]) >>
       /\ dev[1].mode = << Lower(StatusFields[6]) >>
       /\ last.arg[1] = LineOff => IsLineOffStatus(dev[1])

\* C13, amended: the decimal comma is read as a decimal point in field 3
\* alone; field 2 without its last character must be a number as it stands,
\* and a refresh whose field 2 holds a comma fails.
C13_DecodeStatusLinePoint ==
    (StatusRead /\ Len(StatusFields) = 8
     /\ ParseFloat(CommaNumber(StatusFields[4])).ok)
    => IF ParseFloat(DropLast(StatusFields[3], 1)).ok
       THEN /\ Len(last.reqs) = 2
            /\ dev[1].is_on = << StatusFields[2] = <<"O", "N">> >>
            /\ dev[1].unit = << IF StatusFields[3][Len(StatusFields[3])] = "F"
                                THEN "imperial" ELSE "celsius" >>
            /\ dev[1].thermostat = << FloatOf(DropLast(StatusFields[3], 1)) >>
            /\ dev[1].temperature = << FloatOf(CommaNumber(StatusFields[4])) >>
            /\ dev[1].fan_speed = << Lower(StatusFields[5]) >>
            /\ dev[1].mode = << Lower(StatusFields[6]) >>
            /\ last.arg[1] = LineOff => IsLineOffStatus(dev[1])
       ELSE last.exc = "ValueError:float" /\ Len(last.reqs) = 1

\* C13's case: the line of the comment at line 138 was decoded, and a line
\* with "on" in lower case was
C13_Witness ==
    /\ StatusRead /\ Len(last.reqs) = 2
    /\ \/ last.arg[1] = LineOff /\ IsLineOffStatus(dev[1])
       \/ last.arg[1] = LineLower /\ dev[1].is_on = <<FALSE>>

\* C14: when the answer to "stat2 <uid>" is not 8 whitespace-separated
\* fields, the refresh raises "Unexpected status line format", the swing
\* query is not made, no cached status field changes and the timestamp is
\* not advanced.
C14_FieldCount ==
    [][ (now' = now /\ last'.op \in RefreshOps /\ Len(last'.arg) >= 2
         /\ Len(ReSplitWs(Strip(last'.arg[1]))) # 8)
        => /\ last'.exc = "Exception:Unexpected status line format"
           /\ last'.reqs = <<StatRequest(dev[1].uid)>>
           /\ Snapshot(dev'[1]) = Snapshot(dev[1])
           /\ dev'[1].last_refresh_time <= dev[1].last_refresh_time ]_vars

\* C14's case: a refresh got 9 fields, or none, on a Device that holds the
\* status and the timestamp of an earlier refresh
C14_Witness ==
    /\ StatusRead /\ last.op = "get"
    /\ last.arg[1] \in {LineLong, <<>>}
    /\ last.exc = "Exception:Unexpected status line format"
    /\ dev[1].last_refresh_time > 0
    /\ dev[1].swing_mode = <<T_horizontal>>

-----------------------------------------------------------------------------
(* Properties of the threads, checked under SpecThreads *)

\* C16: when the callers wrap every call of _make_request in one lock,
\* every call returns the answer to its own command; without a lock two
\* calls can interleave so that one fails on bytes that answer the other, or
\* on a port the other has closed.
C16_LockedCallsOwnAnswer ==
    mutex # "unused"
    => \A t \in Threads :
          pc[t].at = "done"
          => pc[t].exc = NoExc /\ pc[t].body = AnswerTo(ThreadRequest[t])

\* C16's case: no lock is used, one call found the answer to the other's
\* command where it expected the prompt, and the other got its own answer
C16_Witness ==
    /\ mutex = "unused"
    /\ \E t, u \in Threads :
          /\ pc[t].at = "done" /\ pc[t].exc = PromptNotFound
          /\ pc[u].at = "done" /\ pc[u].exc = NoExc
          /\ pc[u].body = AnswerTo(ThreadRequest[u])

-----------------------------------------------------------------------------
(* Properties of two objects of one unit, checked under SpecPair *)

\* C20: a call on one Device object, whether it succeeds or fails, leaves
\* the cached status and the timestamp of every other object as they were,
\* also of an object of the same uid; that object goes on returning its own
\* cached values, with no exchange, less than 1 time unit after its own
\* last refresh.
C20_CachePerObject ==
    [][ \A i \in DevIds :
          /\ (now' = now /\ last'.d = i)
             => \A j \in DevIds \ {i} : dev'[j] = dev[j]
          /\ (now' = now /\ last'.d = i /\ last'.op = "get"
              /\ dev[i].last_refresh_time > 0
              /\ now - dev[i].last_refresh_time < 1)
             => /\ last'.reqs = <<>>
                /\ last'.exc = NoExc
                /\ last'.ret[1].is_on = dev[i].is_on[1]
                /\ dev' = dev ]_vars

\* C20's case: the unit was turned on through object 1, which then
\* refreshed and holds "on"; object 2, of the same uid, was read after that
\* and returned "off" from its cache
C20_Witness ==
    /\ last.op = "get" /\ last.d = 2 /\ last.reqs = <<>> /\ last.exc = NoExc
    /\ last.ret[1].is_on = FALSE
    /\ dev[1].uid = dev[2].uid
    /\ dev[1].is_on = <<TRUE>>
    /\ dev[1].last_refresh_time = now

====
